---------------------------- MODULE Spec2Model ----------------------------
(***************************************************************************)
(* The server-side-rendering examples of examples/react-ssr-app: the       *)
(* shipped Express server (src/server/server.tsx lines 9-25 and its build  *)
(* dist/server/server.js) and the example servers of the tutorial text     *)
(* that follows it in the same file.  One process runs one example         *)
(* program; requests are dispatched one handler step at a time by the      *)
(* single-threaded event loop.                                             *)
(***************************************************************************)
EXTENDS Integers, Sequences, FiniteSets, TLC

(* Number of requests one behaviour of the model receives. *)
MaxRequests == 2

-----------------------------------------------------------------------------
(* State.                                                                  *)

VARIABLES
    program,         \* the example program this process runs
    startup,         \* the start-up axios.get: "none", "pending", "fulfilled", "rejected"
    preFetchedData,  \* let preFetchedData: any
    writes,          \* number of assignments made to preFetchedData
    cache,           \* const cache = createCache(...): the styles inserted in it
    reqs,            \* the requests received, in order of arrival
    unhandled,       \* promise rejections no handler was attached to
    crashed          \* the process was terminated by an unhandled rejection

vars == <<program, startup, preFetchedData, writes, cache, reqs, unhandled, crashed>>

-----------------------------------------------------------------------------
(* JavaScript values.  Every value is a record of the same shape, so that  *)
(* any two values can be compared.                                         *)

Undefined == [t |-> "undefined", v |-> <<>>, kv |-> <<>>]
Null == [t |-> "null", v |-> <<>>, kv |-> <<>>]
(* A string: its text as a sequence of chunks, each a run of plain         *)
(* characters or one HTML-special character.                               *)
Str(s) == [t |-> "string", v |-> s, kv |-> <<>>]
(* An object: its own enumerable properties in insertion order. *)
Obj(pairs) == [t |-> "object", v |-> <<>>, kv |-> pairs]
(* A pending or settled Promise object: it has no data/name property. *)
PromiseObject == [t |-> "promise", v |-> <<>>, kv |-> <<>>]

(* Property access value.key: undefined when the property is absent. *)
Get(val, key) ==
    IF val.t = "object" /\ \E i \in 1..Len(val.kv) : val.kv[i][1] = key
    THEN LET i == CHOOSE j \in 1..Len(val.kv) : val.kv[j][1] = key
         IN val.kv[i][2]
    ELSE Undefined

-----------------------------------------------------------------------------
(* JSON text is a sequence of tokens, each with its text in chunks.         *)
(* Property names are plain words, a single chunk.                         *)

Punct(c) == [k |-> "punct", s |-> <<c>>]
Lit(w) == [k |-> "lit", s |-> <<w>>]
StrTok(s) == [k |-> "str", s |-> s]

RECURSIVE StringifyValue(_), StringifyMembers(_, _, _)
(* JSON.stringify on a value that is not undefined: the tokens of its text. *)
StringifyValue(val) ==
    CASE val.t = "string" -> <<StrTok(val.v)>>
      [] val.t = "null" -> <<Lit("null")>>
      [] val.t = "object" ->
            <<Punct("{")>> \o StringifyMembers(val.kv, 1, TRUE) \o <<Punct("}")>>
      [] OTHER -> <<Punct("{"), Punct("}")>>

(* The members of an object: a property whose value is undefined is left   *)
(* out, the others are written in order, comma separated.                  *)
StringifyMembers(kv, i, first) ==
    IF i > Len(kv) THEN <<>>
    ELSE IF kv[i][2].t = "undefined" THEN StringifyMembers(kv, i + 1, first)
    ELSE (IF first THEN <<>> ELSE <<Punct(",")>>)
         \o <<StrTok(<<kv[i][1]>>), Punct(":")>> \o StringifyValue(kv[i][2])
         \o StringifyMembers(kv, i + 1, FALSE)

(* `${JSON.stringify(x)}` in a template literal: JSON.stringify(undefined) *)
(* is undefined, which the template writes as the word undefined.          *)
JSONstringify(val) ==
    IF val.t = "undefined" THEN <<Lit("undefined")>> ELSE StringifyValue(val)

ParseFail == [ok |-> FALSE, val |-> Undefined, next |-> 0]

RECURSIVE ParseValue(_, _), ParseMembers(_, _, _)
(* JSON.parse, recursive descent from token i: the value and the index of  *)
(* the first token after it, or a SyntaxError.                             *)
ParseValue(toks, i) ==
    IF i > Len(toks) THEN ParseFail
    ELSE CASE toks[i].k = "str" -> [ok |-> TRUE, val |-> Str(toks[i].s), next |-> i + 1]
           [] toks[i] = Lit("null") -> [ok |-> TRUE, val |-> Null, next |-> i + 1]
           [] toks[i] = Punct("{") ->
                 IF i + 1 <= Len(toks) /\ toks[i + 1] = Punct("}")
                 THEN [ok |-> TRUE, val |-> Obj(<<>>), next |-> i + 2]
                 ELSE ParseMembers(toks, i + 1, <<>>)
           [] OTHER -> ParseFail

ParseMembers(toks, i, acc) ==
    IF i + 1 > Len(toks) \/ toks[i].k # "str" \/ Len(toks[i].s) # 1
       \/ toks[i + 1] # Punct(":")
    THEN ParseFail
    ELSE LET m == ParseValue(toks, i + 2) IN
         IF ~m.ok \/ m.next > Len(toks) THEN ParseFail
         ELSE LET acc2 == Append(acc, <<toks[i].s[1], m.val>>) IN
              IF toks[m.next] = Punct("}")
              THEN [ok |-> TRUE, val |-> Obj(acc2), next |-> m.next + 1]
              ELSE IF toks[m.next] = Punct(",")
              THEN ParseMembers(toks, m.next + 1, acc2)
              ELSE ParseFail

(* JSON.parse of a whole text: the text must be exactly one value. *)
JSONparse(toks) ==
    LET p == ParseValue(toks, 1) IN
    IF p.ok /\ p.next = Len(toks) + 1 THEN p ELSE ParseFail

-----------------------------------------------------------------------------
(* The render step: ReactDOMServer.renderToString.                         *)

(* escapeTextForBrowser, one chunk of text. *)
EscapeChunk(c) ==
    CASE c = "&" -> "&amp;"
      [] c = "<" -> "&lt;"
      [] c = ">" -> "&gt;"
      [] OTHER -> c

EscapeText(chunks) == [i \in 1..Len(chunks) |-> EscapeChunk(chunks[i])]

NoMarkup == [component |-> "", props |-> Undefined, html |-> <<>>]

(* pages/HomePage: <div><HelloWorld /></div>, HelloWorld: <h1>Hello, world!</h1>. *)
HomePage ==
    [component |-> "HomePage", props |-> Undefined,
     html |-> <<"<div>", "<h1>", "Hello, world!", "</h1>", "</div>">>]

(* A value of a kind React cannot render as a child (an object, a Promise). *)
NotRenderable(val) == val.t \in {"object", "promise"}

(* The App of the dynamic-route example: <div>Hello, {message}</div>.  An  *)
(* undefined or null child renders nothing; a string child is escaped and  *)
(* set off from the text before it by a comment node.                      *)
MessageApp(message) ==
    [component |-> "App", props |-> message,
     html |-> IF message.t = "string"
              THEN <<"<div>", "Hello, ", "<!-- -->">> \o EscapeText(message.v) \o <<"</div>">>
              ELSE <<"<div>", "Hello, ", "</div>">>]

(* The App imported from ./App by the other examples; its source is not in *)
(* the repository, so its markup is the element itself with its props.     *)
ImportedApp(props) ==
    [component |-> "App", props |-> props, html |-> <<"<App>", "</App>">>]

(* A render whose markup carries a counter kept across calls. *)
renderToStringCounting(tree, throws) ==
    IF throws THEN [ok |-> FALSE, markup |-> NoMarkup]
    ELSE [ok |-> TRUE,
          markup |-> [tree EXCEPT !.html = Append(@, ToString(Len(reqs)))]]

(* The class names of the styles the App of the Emotion example renders    *)
(* with, and its tree inside <CacheProvider value={cache}>: its source is  *)
(* not in the repository.                                                  *)
AppStyles == {"css-app"}

StyledApp ==
    [component |-> "CacheProvider", props |-> Obj(<<>>),
     html |-> <<"<App class=", "css-app", ">", "</App>">>]

(* renderToString(tree): the markup, or an error thrown by the render.     *)
(* throws is the outcome of a component whose body is not in the source.   *)
renderToString(tree, throws) ==
    IF throws THEN [ok |-> FALSE, markup |-> NoMarkup]
    ELSE [ok |-> TRUE, markup |-> tree]

-----------------------------------------------------------------------------
(* Responses.  A body is a document built from a route's template, a short *)
(* text, or nothing yet.                                                   *)

NoBody ==
    [kind |-> "none", text |-> "", lang |-> "", head |-> <<>>, styles |-> {},
     mounts |-> <<>>, data |-> <<>>, bundle |-> FALSE]

TextBody(msg) == [NoBody EXCEPT !.kind = "text", !.text = msg]

(* The <title> of each route's template. *)
Title(route) ==
    CASE route = "home" -> "React SSR App"
      [] route = "axiosRoot" -> "SSR Example"
      [] route = "prefetchRoot" -> "SSR with Pre-fetching Example"
      [] route = "contextRoot" -> "SSR with Context API Example"
      [] route = "dynamic" -> "SSR with Combined Strategies"
      [] route = "dynamicRoute" -> "Dynamic Route SSR"
      [] route = "user" -> "User Profile"
      [] route = "star" -> "React SSR App"
      [] route = "emotionRoot" -> "SSR with Emotion"

(* The <head> of each route's template. *)
DocHead(route) ==
    CASE route = "home" ->
            <<"<meta charset=UTF-8>",
              "<meta name=viewport content=width=device-width, initial-scale=1.0>",
              "<title>" \o Title(route) \o "</title>">>
      [] route = "star" ->
            <<"<meta charset=utf-8>", "<title>" \o Title(route) \o "</title>">>
      [] OTHER -> <<"<title>" \o Title(route) \o "</title>">>

(* The element the client entry point hydrates into:                       *)
(* hydrate(<App />, document.getElementById('root')).                      *)
HydrationTarget == "root"

(* A template that names its mount element app on every route. *)
MountIdApp(route) == "app"

(* The id of the element the template interpolates the markup into. *)
MountId(route) ==
    IF route \in {"contextRoot", "dynamic", "emotionRoot"} THEN "app" ELSE "root"

(* A template whose mount element lacks the ${html} interpolation. *)
MountsUnfilled(route, markup) == <<[id |-> MountId(route), content |-> NoMarkup]>>

(* The elements of <body> that hold rendered markup: the template has one  *)
(* <div id=...>${html}</div>.                                              *)
Mounts(route, markup) == <<[id |-> MountId(route), content |-> markup]>>

(* The global the inline script assigns the serialised data to. *)
DataTarget(route) ==
    IF route = "contextRoot" THEN "windows.__INITIAL_DATA__"
    ELSE "window.__INITIAL_DATA__"

(* The routes whose template carries an inline initial-data script and the *)
(* /bundle.js script.                                                      *)
DataRoutes == {"axiosRoot", "prefetchRoot", "contextRoot", "dynamic"}

(* The template literal handed to res.send: the document of a route with   *)
(* the markup and, on the data routes, the JSON text of the data.          *)
Document(route, markup, data) ==
    [kind |-> "document", text |-> "",
     lang |-> IF route \in {"home", "star"} THEN "en" ELSE "",
     head |-> DocHead(route),
     styles |-> {},
     mounts |-> Mounts(route, markup),
     data |-> IF route \in DataRoutes
              THEN <<[target |-> DataTarget(route), json |-> JSONstringify(data)]>>
              ELSE <<>>,
     bundle |-> route \in DataRoutes]

(* res.send(document): status 200 unless set. *)
SendDocument(route, markup, data) ==
    [status |-> 200, body |-> Document(route, markup, data)]

(* A catch block that answers with the empty page shell and no status. *)
CatchSendsShell(route) ==
    [status |-> 200, body |-> Document(route, NoMarkup, Undefined)]

(* The catch block of a route: res.status(500).send(message). *)
CatchResponse(route) ==
    [status |-> 500,
     body |-> TextBody(IF route = "user" THEN "Error fetching user data"
                       ELSE "Internal Server Error")]

(* A handler without try/catch that throws synchronously: Express passes   *)
(* the error to its default error handler, which answers 500.              *)
ExpressErrorResponse == [status |-> 500, body |-> TextBody("Internal Server Error")]

-----------------------------------------------------------------------------
(* Programs, routes and inputs.                                            *)

(* The example programs: the shipped server, the route table of the        *)
(* examples (the paths /, /:dynamicRoute, /user/:id and the catch-all      *)
(* star), and the data-fetching examples.                                  *)
Programs ==
    {"shipped", "surface", "axios", "prefetch", "context", "combined", "emotion"}

Routes(prog) ==
    CASE prog = "shipped" -> {"home"}
      [] prog = "surface" -> {"home", "dynamicRoute", "user", "star"}
      [] prog = "axios" -> {"axiosRoot"}
      [] prog = "prefetch" -> {"prefetchRoot"}
      [] prog = "context" -> {"contextRoot"}
      [] prog = "combined" -> {"dynamic"}
      [] prog = "emotion" -> {"emotionRoot"}

(* Path parameters a request can carry: req.params.dynamicRoute, req.params.id. *)
Segments == {<<"alice">>, <<"bob">>, <<"a", "&", "b">>}
UserIds == {<<"1">>, <<"2">>}

ParamsOf(route) ==
    CASE route = "dynamicRoute" -> Segments
      [] route = "user" -> UserIds
      [] OTHER -> {<<>>}

(* Payloads https://api.example.com/data can answer with. *)
Payloads ==
    {Str(<<"d1">>),
     Obj(<< <<"name", Str(<<"d2">>)>> >>),
     Obj(<< <<"user", Obj(<< <<"name", Str(<<"d3">>)>>, <<"nick", Null>> >>)>> >>)}

(* The user jsonplaceholder.typicode.com/users/${userId} answers with. *)
UserRecord(userId) ==
    Obj(<< <<"id", Str(userId)>>, <<"name", Str(<<"user-">> \o userId)>> >>)

(* What the upstream does with one request: the connection fails, it       *)
(* answers with an error status, with a body that is not JSON, or with a   *)
(* payload.                                                                *)
NoOutcome == [kind |-> "none", data |-> Undefined]
Outcome(kind, data) == [kind |-> kind, data |-> data]

UpstreamOutcomes(route, param) ==
    {Outcome("networkError", Undefined), Outcome("httpError", Undefined),
     Outcome("malformed", Str(<<"<", "html", ">">>))}
    \cup IF route = "user" THEN {Outcome("ok", UserRecord(param))}
         ELSE {Outcome("ok", d) : d \in Payloads}

(* await axios.get(url) resolves on a 2xx answer (a body that is not JSON  *)
(* is handed over as a string) and rejects otherwise.                      *)
AxiosResolves(outcome) == outcome.kind \in {"ok", "malformed"}

(* await fetch(url) rejects only when the connection fails. *)
FetchResolves(outcome) == outcome.kind # "networkError"

(* The promise of Response.json() fulfils when the body is JSON. *)
JsonFulfils(outcome) == outcome.kind \in {"ok", "httpError"}

-----------------------------------------------------------------------------
(* Requests and the initial state.                                         *)

NewRequest(route, param) ==
    [route |-> route, param |-> param, pc |-> "pending",
     status |-> 0, body |-> NoBody,
     renders |-> 0, rendered |-> "no",
     upstream |-> NoOutcome, json |-> "none",
     markup |-> NoMarkup, sawStartup |-> "", payload |-> Undefined,
     sends |-> 0, awaits |-> 0, steps |-> <<>>]

(* The programs that fetch at start-up. *)
PreFetching == {"prefetch", "combined"}

(* The state once the module body has run and app.listen was called.  In   *)
(* the pre-fetch example fetchData() is suspended on its await; in the     *)
(* combined example fetchData() has already assigned response.data of the  *)
(* promise axios.get returned.                                             *)
Init ==
    /\ program \in Programs
    /\ startup = IF program \in PreFetching THEN "pending" ELSE "none"
    /\ preFetchedData = IF program = "combined" THEN Get(PromiseObject, "data")
                        ELSE Undefined
    /\ writes = IF program = "combined" THEN 1 ELSE 0
    /\ cache = {}
    /\ reqs = <<>>
    /\ unhandled = 0
    /\ crashed = FALSE

-----------------------------------------------------------------------------
(* Handlers.                                                               *)

(* A dispatcher that takes no request while a handler is suspended. *)
CanReceiveBlocking(route) ==
    /\ ~crashed /\ Len(reqs) < MaxRequests /\ route \in Routes(program)
    /\ \A i \in 1..Len(reqs) : reqs[i].pc # "pending"

(* The dispatcher hands a new request to the handler of its route. *)
CanReceive(route) ==
    ~crashed /\ Len(reqs) < MaxRequests /\ route \in Routes(program)

Arrive(route, param) == Append(reqs, NewRequest(route, param))

(* A handler that keeps the parameters of the first request it saw. *)
ReqParamsFirst(rs, i) == rs[1].param

(* req.params of the request being handled. *)
ReqParams(rs, i) == rs[i].param

(* A handler that keeps the first payload fetched and serves it to every   *)
(* later request.                                                          *)
ResponseDataCached(rs, i) ==
    IF rs[1].upstream.kind \in {"ok", "malformed"}
    THEN rs[1].upstream.data
    ELSE rs[i].upstream.data

(* response.data of the response the request's own await returned. *)
ResponseData(rs, i) == rs[i].upstream.data

(* A res.send that leaves the request open, so that its handler runs on. *)
SentStaysPending(req, resp) ==
    [req EXCEPT !.status = resp.status, !.body = resp.body,
                !.sends = @ + 1, !.steps = Append(@, "respond")]

(* res.send(...): the response is written and the request is completed. *)
Sent(req, resp) ==
    [req EXCEPT !.pc = "completed", !.status = resp.status, !.body = resp.body,
                !.sends = @ + 1, !.steps = Append(@, "respond")]

(* const html = renderToString(tree); res.send(`...${html}...`): the render *)
(* is called once, and the document is sent once it has returned; if it    *)
(* throws, control leaves the handler body for onThrow.                    *)
(* A handler that refuses to serve a payload that is not there: it        *)
(* answers with the error response when the data is undefined.             *)
RenderAndSendChecked(req, tree, throws, data, onThrow) ==
    LET r == renderToString(tree, throws)
        resp == IF r.ok /\ data # Undefined
                THEN SendDocument(req.route, r.markup, data) ELSE onThrow
    IN Sent([req EXCEPT !.renders = @ + 1,
                        !.rendered = IF r.ok THEN "ok" ELSE "threw",
                        !.markup = r.markup,
                        !.sawStartup = startup, !.payload = data,
                        !.steps = @ \o <<"build", "render">>],
            resp)

(* const html = renderToString(tree); res.send(template): the render, then *)
(* the document, or what the handler does with an error the render throws. *)
RenderAndSend(req, tree, throws, data, onThrow) ==
    LET r == renderToString(tree, throws)
        resp == IF r.ok THEN SendDocument(req.route, r.markup, data) ELSE onThrow
    IN Sent([req EXCEPT !.renders = @ + 1,
                        !.rendered = IF r.ok THEN "ok" ELSE "threw",
                        !.markup = r.markup,
                        !.sawStartup = startup, !.payload = data,
                        !.steps = @ \o <<"build", "render">>],
            resp)

(* The await rejected: the catch block answers without rendering. *)
CatchFetchError(req) ==
    Sent(req, CatchResponse(req.route))

(* A rejection of a promise nobody awaits or catches: reported as an       *)
(* unhandled rejection, which terminates the process or is only warned     *)
(* about, depending on the Node.js version and flags.                      *)
UnhandledRejection ==
    /\ unhandled' = unhandled + 1
    /\ crashed' \in BOOLEAN

(* app.get('/') of the shipped server. *)
GetHome ==
    /\ CanReceive("home")
    /\ \E throws \in BOOLEAN :
         LET rs == Arrive("home", <<>>)
             i == Len(rs)
         IN reqs' = [rs EXCEPT ![i] =
                        RenderAndSend(rs[i], HomePage, throws, Undefined,
                                      ExpressErrorResponse)]
    /\ UNCHANGED <<program, startup, preFetchedData, writes, cache, unhandled, crashed>>

(* server.get('*'): the imported App, whatever the path. *)
GetStar ==
    /\ CanReceive("star")
    /\ \E throws \in BOOLEAN :
         LET rs == Arrive("star", <<>>)
             i == Len(rs)
         IN reqs' = [rs EXCEPT ![i] =
                        RenderAndSend(rs[i], ImportedApp(Obj(<<>>)), throws, Undefined,
                                      ExpressErrorResponse)]
    /\ UNCHANGED <<program, startup, preFetchedData, writes, cache, unhandled, crashed>>

(* app.get('/:dynamicRoute'): message = req.params.dynamicRoute. *)
GetDynamicRoute ==
    /\ CanReceive("dynamicRoute")
    /\ \E param \in ParamsOf("dynamicRoute") :
         LET rs == Arrive("dynamicRoute", param)
             i == Len(rs)
             message == Str(ReqParams(rs, i))
         IN reqs' = [rs EXCEPT ![i] =
                        RenderAndSend(rs[i], MessageApp(message), NotRenderable(message),
                                      Undefined, ExpressErrorResponse)]
    /\ UNCHANGED <<program, startup, preFetchedData, writes, cache, unhandled, crashed>>

(* A handler of the pre-fetch example that clears preFetchedData once it    *)
(* has served it.                                                          *)
GetPrefetchRootConsuming ==
    /\ CanReceive("prefetchRoot")
    /\ \E throws \in BOOLEAN :
         LET rs == Arrive("prefetchRoot", <<>>)
             i == Len(rs)
             tree == ImportedApp(Obj(<< <<"initalData", preFetchedData>> >>))
         IN reqs' = [rs EXCEPT ![i] =
                        RenderAndSend(rs[i], tree, throws, preFetchedData,
                                      ExpressErrorResponse)]
    /\ preFetchedData' = Undefined
    /\ writes' = writes + 1
    /\ UNCHANGED <<program, startup, cache, unhandled, crashed>>

(* app.get('/') of the pre-fetch example: renders and serialises whatever  *)
(* preFetchedData holds when the request is handled.                       *)
GetPrefetchRoot ==
    /\ CanReceive("prefetchRoot")
    /\ \E throws \in BOOLEAN :
         LET rs == Arrive("prefetchRoot", <<>>)
             i == Len(rs)
             tree == ImportedApp(Obj(<< <<"initalData", preFetchedData>> >>))
         IN reqs' = [rs EXCEPT ![i] =
                        RenderAndSend(rs[i], tree, throws, preFetchedData,
                                      ExpressErrorResponse)]
    /\ UNCHANGED <<program, startup, preFetchedData, writes, cache, unhandled, crashed>>

(* extractCriticalToChunks(html): the styles of the cache whose class      *)
(* names occur in the markup.                                              *)
extractCriticalToChunks(c, html) ==
    {name \in c : \E k \in 1..Len(html) : html[k] = name}

(* app.get('/') of the Emotion example: the render inserts the styles it   *)
(* meets into the cache shared by all requests, and the styles of the      *)
(* markup are read back from that cache into <style data-emotion="css">.   *)
GetEmotionRoot ==
    /\ CanReceive("emotionRoot")
    /\ \E throws \in BOOLEAN :
         LET rs == Arrive("emotionRoot", <<>>)
             i == Len(rs)
             done == RenderAndSend(rs[i], StyledApp, throws, Undefined,
                                   ExpressErrorResponse)
             filled == IF throws THEN cache ELSE cache \cup AppStyles
             styles == extractCriticalToChunks(filled, done.markup.html)
         IN /\ cache' = filled
            /\ reqs' = [rs EXCEPT ![i] =
                           IF throws THEN done
                           ELSE [done EXCEPT !.body.styles = styles]]
    /\ UNCHANGED <<program, startup, preFetchedData, writes, unhandled, crashed>>

(* fetchData() of the pre-fetch example, resumed when its axios.get        *)
(* settles: the data is assigned, or the error is logged.                  *)
FetchDataSettles ==
    /\ ~crashed /\ program = "prefetch" /\ startup = "pending"
    /\ \E outcome \in UpstreamOutcomes("prefetchRoot", <<>>) :
         IF AxiosResolves(outcome)
         THEN /\ preFetchedData' = outcome.data
              /\ writes' = writes + 1
              /\ startup' = "fulfilled"
         ELSE /\ startup' = "rejected"
              /\ UNCHANGED <<preFetchedData, writes>>
    /\ UNCHANGED <<program, cache, reqs, unhandled, crashed>>

(* The promise fetchData() of the combined example left behind settles;    *)
(* nothing awaits it and nothing catches its rejection.                    *)
StartupPromiseSettles ==
    /\ ~crashed /\ program = "combined" /\ startup = "pending"
    /\ \E outcome \in UpstreamOutcomes("dynamic", <<>>) :
         IF AxiosResolves(outcome)
         THEN startup' = "fulfilled" /\ UNCHANGED <<unhandled, crashed>>
         ELSE startup' = "rejected" /\ UnhandledRejection
    /\ UNCHANGED <<program, preFetchedData, writes, cache, reqs>>

(* An async handler runs up to its await and is suspended there. *)
Suspend(route, param) ==
    /\ CanReceive(route)
    /\ LET rs == Arrive(route, param)
       IN reqs' = [rs EXCEPT ![Len(rs)].awaits = @ + 1,
                             ![Len(rs)].steps = Append(@, "fetch")]
    /\ UNCHANGED <<program, startup, preFetchedData, writes, cache, unhandled, crashed>>

(* The await of the request i settles with the upstream's outcome; when    *)
(* it resolves, the handler has its payload.                               *)
Settled(i, outcome, resolved) ==
    [reqs EXCEPT ![i].upstream = outcome,
                 ![i].steps = IF resolved THEN Append(@, "payload") ELSE @]

(* The request i of a route is suspended on its await. *)
Suspended(i, route) ==
    /\ ~crashed
    /\ i \in 1..Len(reqs)
    /\ reqs[i].route = route
    /\ reqs[i].pc = "pending"

(* app.get('/') of the axios example, up to await axios.get(...). *)
GetAxiosRoot == Suspend("axiosRoot", <<>>)

(* The rest of the handler, run when the awaited axios.get settles. *)
ResumeAxiosRoot ==
    /\ \E i \in 1..MaxRequests :
         /\ Suspended(i, "axiosRoot")
         /\ \E outcome \in UpstreamOutcomes("axiosRoot", <<>>), throws \in BOOLEAN :
              LET rs == Settled(i, outcome, AxiosResolves(outcome))
                  data == ResponseData(rs, i)
                  tree == ImportedApp(Obj(<< <<"initalData", data>> >>))
              IN reqs' = [rs EXCEPT ![i] =
                             IF AxiosResolves(outcome)
                             THEN RenderAndSend(rs[i], tree, throws, data,
                                                CatchResponse("axiosRoot"))
                             ELSE CatchFetchError(rs[i])]
    /\ UNCHANGED <<program, startup, preFetchedData, writes, cache, unhandled, crashed>>

(* app.get('/') of the Context API example, up to its await. *)
GetContextRoot == Suspend("contextRoot", <<>>)

(* The rest of it: <DataContext.Provider value={data}><App /></...>. *)
ResumeContextRoot ==
    /\ \E i \in 1..MaxRequests :
         /\ Suspended(i, "contextRoot")
         /\ \E outcome \in UpstreamOutcomes("contextRoot", <<>>), throws \in BOOLEAN :
              LET rs == Settled(i, outcome, AxiosResolves(outcome))
                  data == ResponseData(rs, i)
                  tree == ImportedApp(Obj(<< <<"value", data>> >>))
              IN reqs' = [rs EXCEPT ![i] =
                             IF AxiosResolves(outcome)
                             THEN RenderAndSend(rs[i], tree, throws, data,
                                                CatchResponse("contextRoot"))
                             ELSE CatchFetchError(rs[i])]
    /\ UNCHANGED <<program, startup, preFetchedData, writes, cache, unhandled, crashed>>

(* app.get('/dynamic') of the combined example, up to its await. *)
GetDynamic == Suspend("dynamic", <<>>)

(* The rest of it: { staticData: preFetchedData, dynamicData } is rendered *)
(* and serialised.                                                         *)
ResumeDynamic ==
    /\ \E i \in 1..MaxRequests :
         /\ Suspended(i, "dynamic")
         /\ \E outcome \in UpstreamOutcomes("dynamic", <<>>), throws \in BOOLEAN :
              LET rs == Settled(i, outcome, AxiosResolves(outcome))
                  dynamicData == ResponseData(rs, i)
                  initialData == Obj(<< <<"staticData", preFetchedData>>,
                                        <<"dynamicData", dynamicData>> >>)
                  tree == ImportedApp(Obj(<< <<"initialData", initialData>> >>))
              IN reqs' = [rs EXCEPT ![i] =
                             IF AxiosResolves(outcome)
                             THEN RenderAndSend(rs[i], tree, throws, initialData,
                                                CatchResponse("dynamic"))
                             ELSE CatchFetchError(rs[i])]
    /\ UNCHANGED <<program, startup, preFetchedData, writes, cache, unhandled, crashed>>

(* app.get('/user/:id'), up to await fetch(`.../users/${userId}`). *)
GetUser == \E userId \in ParamsOf("user") : Suspend("user", userId)

(* The rest of it.  userData.json() is not awaited: userJson is a promise, *)
(* userJson.name is undefined, and the promise is left to settle alone.    *)
ResumeUser ==
    /\ \E i \in 1..MaxRequests :
         /\ Suspended(i, "user")
         /\ \E outcome \in UpstreamOutcomes("user", ReqParams(reqs, i)) :
              LET rs == Settled(i, outcome, FetchResolves(outcome))
                  userJson == PromiseObject
                  message == Get(userJson, "name")
              IN reqs' = [rs EXCEPT ![i] =
                             IF FetchResolves(outcome)
                             THEN [RenderAndSend(rs[i], MessageApp(message),
                                                 NotRenderable(message), Undefined,
                                                 CatchResponse("user"))
                                   EXCEPT !.json = "pending"]
                             ELSE CatchFetchError(rs[i])]
    /\ UNCHANGED <<program, startup, preFetchedData, writes, cache, unhandled, crashed>>

(* The promise of userData.json() settles after the response was sent. *)
UserJsonSettles ==
    /\ ~crashed
    /\ \E i \in 1..MaxRequests :
         /\ i \in 1..Len(reqs)
         /\ reqs[i].json = "pending"
         /\ IF JsonFulfils(reqs[i].upstream)
            THEN /\ reqs' = [reqs EXCEPT ![i].json = "fulfilled",
                                          ![i].steps = Append(@, "body")]
                 /\ UNCHANGED <<unhandled, crashed>>
            ELSE /\ reqs' = [reqs EXCEPT ![i].json = "rejected"]
                 /\ UnhandledRejection
    /\ UNCHANGED <<program, startup, preFetchedData, writes, cache>>

Next ==
    \/ GetHome
    \/ GetStar
    \/ GetDynamicRoute
    \/ GetPrefetchRoot
    \/ GetEmotionRoot
    \/ FetchDataSettles
    \/ StartupPromiseSettles
    \/ GetAxiosRoot
    \/ ResumeAxiosRoot
    \/ GetContextRoot
    \/ ResumeContextRoot
    \/ GetDynamic
    \/ ResumeDynamic
    \/ GetUser
    \/ ResumeUser
    \/ UserJsonSettles

Spec == Init /\ [][Next]_vars

(* The dispatcher is scheduled fairly and every promise settles: a         *)
(* suspended handler is resumed, and the promises left behind by           *)
(* fetchData() and userData.json() settle, whenever they can.              *)
FairSpec ==
    /\ Spec
    /\ WF_vars(FetchDataSettles)
    /\ WF_vars(StartupPromiseSettles)
    /\ WF_vars(ResumeAxiosRoot)
    /\ WF_vars(ResumeContextRoot)
    /\ WF_vars(ResumeDynamic)
    /\ WF_vars(ResumeUser)
    /\ WF_vars(UserJsonSettles)

-----------------------------------------------------------------------------
(* Vocabulary of the properties.                                           *)

Idx == 1..Len(reqs)

Done(i) == reqs[i].pc = "completed"

(* sub occurs in s as a run of consecutive elements. *)
Contains(s, sub) ==
    \E k \in 0..(Len(s) - Len(sub)) : \A m \in 1..Len(sub) : s[k + m] = sub[m]

(* The body holds a mount element with rendered markup in it. *)
HasRenderedMount(body) ==
    \E m \in 1..Len(body.mounts) : body.mounts[m].content.html # <<>>

RECURSIVE ValueMentions(_, _)
(* The value d is val or one of the values nested in val. *)
ValueMentions(val, d) ==
    \/ val = d
    \/ \E m \in 1..Len(val.kv) : ValueMentions(val.kv[m][2], d)

(* The text of the path parameter param shows in the body, as it is or     *)
(* escaped.                                                                *)
ShowsParam(body, param) ==
    \/ \E m \in 1..Len(body.mounts) :
          \/ Contains(body.mounts[m].content.html, param)
          \/ Contains(body.mounts[m].content.html, EscapeText(param))
          \/ ValueMentions(body.mounts[m].content.props, Str(param))
    \/ \E m \in 1..Len(body.data) : Contains(body.data[m].json, <<StrTok(param)>>)

(* The payload d shows in the body: in the props rendered or in the text   *)
(* of the data script.                                                     *)
ShowsPayload(body, d) ==
    \/ \E m \in 1..Len(body.mounts) : ValueMentions(body.mounts[m].content.props, d)
    \/ \E m \in 1..Len(body.data) : Contains(body.data[m].json, StringifyValue(d))

(* The upstream gave the request i a payload. *)
GotPayload(i) == reqs[i].upstream.kind \in {"ok", "malformed"}

-----------------------------------------------------------------------------
(* C1.  On the data-fetching routes GET /user/:id and the axios GET /, a   *)
(* request whose upstream fetch failed (the connection failed or the       *)
(* upstream answered with an error status instead of a payload) is         *)
(* answered with status 500 and a body without a mount element holding     *)
(* rendered markup, and a 200 document is sent only when the upstream gave *)
(* a payload.                                                              *)

UpstreamFailed(i) == reqs[i].upstream.kind \in {"networkError", "httpError"}

C1_FetchFailureIs500 ==
    \A i \in Idx :
        (Done(i) /\ reqs[i].route \in {"user", "axiosRoot"}) =>
            /\ UpstreamFailed(i) =>
                  (reqs[i].status = 500 /\ ~HasRenderedMount(reqs[i].body))
            /\ reqs[i].status = 200 => GotPayload(i)

-----------------------------------------------------------------------------
(* C2.  Whatever the interleaving of the requests in flight, the response  *)
(* to a request is computed from its own path parameter and its own        *)
(* fetched payload only: it shows no path parameter and no payload of      *)
(* another request that is not also its own, and two requests of a route   *)
(* with the same parameter, the same upstream outcome and the same render  *)
(* outcome get the same response.                                          *)

ParamLeak(i, j) ==
    /\ reqs[j].param # <<>>
    /\ reqs[j].param # reqs[i].param
    /\ ShowsParam(reqs[i].body, reqs[j].param)

PayloadLeak(i, j) ==
    /\ GotPayload(j)
    /\ reqs[j].upstream.data # reqs[i].upstream.data
    /\ ShowsPayload(reqs[i].body, reqs[j].upstream.data)

SameInputs(i, j) ==
    /\ reqs[i].route = reqs[j].route
    /\ reqs[i].route # "prefetchRoot"
    /\ reqs[i].param = reqs[j].param
    /\ reqs[i].upstream = reqs[j].upstream
    /\ reqs[i].rendered = reqs[j].rendered

C2_NoCrossTalk ==
    \A i \in Idx : Done(i) =>
        \A j \in Idx \ {i} :
            /\ ~ParamLeak(i, j)
            /\ ~PayloadLeak(i, j)
            /\ (Done(j) /\ SameInputs(i, j)) =>
                  (reqs[i].status = reqs[j].status /\ reqs[i].body = reqs[j].body)

(* A request of another route was answered from its own parameter while a  *)
(* /user/:id request that arrived before it was still awaiting its fetch.  *)
C2_Witness ==
    /\ Len(reqs) >= 2
    /\ reqs[1].route = "user" /\ reqs[1].pc = "pending"
    /\ reqs[2].route = "dynamicRoute" /\ Done(2) /\ reqs[2].status = 200

-----------------------------------------------------------------------------
(* C3 as stated.  The markup of GET /:dynamicRoute for /p contains p, and  *)
(* contains no text of the parameter of an earlier request.                *)

MarkupOf(i) == reqs[i].body.mounts[1].content.html

Answered(i) ==
    Done(i) /\ reqs[i].route = "dynamicRoute" /\ reqs[i].status = 200

C3_MarkupContainsParam ==
    \A i \in Idx : Answered(i) =>
        /\ Contains(MarkupOf(i), reqs[i].param)
        /\ \A j \in 1..(i - 1) :
              ~ParamLeak(i, j)

(* C3 amended.  The markup of GET /:dynamicRoute is a function of the path *)
(* parameter alone: a request for /p gets markup containing the            *)
(* HTML-escaped text of p (p itself when p has no HTML-special character), *)
(* two requests with the same parameter get the same response, and after   *)
(* any earlier requests the response shows no text of an earlier request's *)
(* different parameter.                                                    *)
C3_MarkupIsFunctionOfParam ==
    \A i \in Idx : Answered(i) =>
        /\ Contains(MarkupOf(i), EscapeText(reqs[i].param))
        /\ (EscapeText(reqs[i].param) = reqs[i].param =>
               Contains(MarkupOf(i), reqs[i].param))
        /\ \A j \in Idx :
              (Answered(j) /\ reqs[j].param = reqs[i].param) =>
                  reqs[j].body = reqs[i].body
        /\ \A j \in 1..(i - 1) :
              ~ParamLeak(i, j)

(* /alice was answered, then /bob. *)
C3_Witness ==
    /\ Len(reqs) >= 2
    /\ Answered(1) /\ reqs[1].param = <<"alice">>
    /\ Answered(2) /\ reqs[2].param = <<"bob">>

-----------------------------------------------------------------------------
(* C4.  Whenever a response document carries an initial-data script, the   *)
(* text of the script parses as JSON and the parsed value is exactly the   *)
(* payload the handler had for the request, in the per-request, the        *)
(* pre-fetch and the combined example, an unset pre-fetched value          *)
(* included.                                                               *)
C4_DataScriptRoundTrips ==
    \A i \in Idx :
        (Done(i) /\ reqs[i].body.kind = "document") =>
            \A m \in 1..Len(reqs[i].body.data) :
                /\ JSONparse(reqs[i].body.data[m].json).ok
                /\ JSONparse(reqs[i].body.data[m].json).val = reqs[i].payload

-----------------------------------------------------------------------------
(* C5.  Every response sent after a render that succeeded is a document    *)
(* with exactly one mount element, and that element holds the markup the   *)
(* render returned for that request, which is not empty.                   *)
C5_OneMountWithMarkup ==
    \A i \in Idx :
        (Done(i) /\ reqs[i].rendered = "ok") =>
            /\ reqs[i].body.kind = "document"
            /\ Len(reqs[i].body.mounts) = 1
            /\ reqs[i].body.mounts[1].content = reqs[i].markup
            /\ reqs[i].markup.html # <<>>

(* The shipped GET / has rendered HomePage and answered. *)
C5_Witness ==
    \E i \in Idx :
        /\ Done(i) /\ reqs[i].route = "home" /\ reqs[i].rendered = "ok"
        /\ reqs[i].markup = HomePage

-----------------------------------------------------------------------------
(* C6.  No failure escapes the request-handling boundary: there is never   *)
(* a promise rejection without a handler, and the process is never         *)
(* terminated by one, a failing start-up fetchData() included.             *)
C6_NoFailureEscapes == unhandled = 0 /\ ~crashed

-----------------------------------------------------------------------------
(* C7.  A request whose render threw is answered with a 5xx status, its    *)
(* render was attempted once, and its response holds no part of the        *)
(* success document.                                                       *)
C7_RenderErrorIs5xx ==
    \A i \in Idx :
        (Done(i) /\ reqs[i].rendered = "threw") =>
            /\ reqs[i].status \in 500..599
            /\ reqs[i].renders = 1
            /\ reqs[i].body.kind = "text"
            /\ reqs[i].body.mounts = <<>> /\ reqs[i].body.head = <<>>
            /\ reqs[i].body.data = <<>>

(* The render threw in two requests of the axios example that had fetched  *)
(* different payloads.                                                     *)
C7_Witness ==
    /\ Len(reqs) >= 2
    /\ \A i \in 1..2 : Done(i) /\ reqs[i].rendered = "threw"
    /\ reqs[1].route = "axiosRoot" /\ reqs[2].route = "axiosRoot"
    /\ reqs[1].upstream # reqs[2].upstream

-----------------------------------------------------------------------------
(* C8.  On the shipped server every GET / whose render succeeded has       *)
(* status 200 and one fixed document: lang en, charset and viewport        *)
(* metadata, the title React SSR App and div#root holding the HomePage     *)
(* markup, whatever was handled before.                                    *)
C8_HomeIsFixedDocument ==
    \A i \in Idx :
        (Done(i) /\ reqs[i].route = "home" /\ reqs[i].rendered = "ok") =>
            /\ reqs[i].status = 200
            /\ reqs[i].body =
                  [kind |-> "document", text |-> "", lang |-> "en",
                   head |-> <<"<meta charset=UTF-8>",
                              "<meta name=viewport content=width=device-width, initial-scale=1.0>",
                              "<title>React SSR App</title>">>,
                   styles |-> {},
                   mounts |-> <<[id |-> "root",
                                 content |->
                                    [component |-> "HomePage", props |-> Undefined,
                                     html |-> <<"<div>", "<h1>", "Hello, world!",
                                                "</h1>", "</div>">>]]>>,
                   data |-> <<>>, bundle |-> FALSE]

(* The shipped server answered GET / after a GET / whose render threw. *)
C8_Witness ==
    /\ program = "shipped"
    /\ Len(reqs) >= 2
    /\ Done(1) /\ reqs[1].rendered = "threw"
    /\ Done(2) /\ reqs[2].rendered = "ok" /\ reqs[2].status = 200

-----------------------------------------------------------------------------
(* C9.  In the pre-fetch examples no request is rendered while the         *)
(* start-up fetch is outstanding or while preFetchedData is unset.         *)

(* The value of preFetchedData the request i rendered. *)
SeenData(i) ==
    IF reqs[i].route = "dynamic" THEN Get(reqs[i].payload, "staticData")
    ELSE reqs[i].payload

ReadsPreFetched(i) ==
    reqs[i].route \in {"prefetchRoot", "dynamic"} /\ reqs[i].rendered # "no"

C9_PayloadResolvedBeforeRender ==
    \A i \in Idx : ReadsPreFetched(i) =>
        /\ reqs[i].sawStartup # "pending"
        /\ SeenData(i) # Undefined

-----------------------------------------------------------------------------
(* C10.  preFetchedData is written exactly once, at start-up, and only     *)
(* read after that: once the start-up fetch has settled there has been     *)
(* one write, there are never two, and the value every request has read    *)
(* is the value the variable holds.                                        *)
C10_WrittenOnceThenReadOnly ==
    program \in PreFetching =>
        /\ writes <= 1
        /\ startup # "pending" => writes = 1
        /\ \A i \in Idx : ReadsPreFetched(i) => SeenData(i) = preFetchedData

-----------------------------------------------------------------------------
(* C11.  A request is pending or completed and nothing else; it is         *)
(* answered at most once, it is completed exactly when its one response    *)
(* has been sent, that response is either the success document or an error *)
(* text, and once completed it stays completed with the response it got.   *)
C11_PendingThenCompletedOnce ==
    /\ [](\A i \in Idx :
            /\ reqs[i].pc \in {"pending", "completed"}
            /\ reqs[i].sends <= 1
            /\ Done(i) <=> reqs[i].sends = 1
            /\ Done(i) => reqs[i].body.kind \in {"document", "text"}
            /\ reqs[i].body.kind = "document" <=> reqs[i].status = 200)
    /\ [][\A i \in Idx : Done(i) =>
            /\ reqs'[i].pc = "completed"
            /\ reqs'[i].sends = reqs[i].sends
            /\ reqs'[i].status = reqs[i].status
            /\ reqs'[i].body = reqs[i].body]_vars

(* One /user/:id request was answered with the document and its handler's  *)
(* json() promise settled afterwards; another was answered with the error  *)
(* text.                                                                   *)
C11_Witness ==
    /\ Len(reqs) >= 2
    /\ Done(1) /\ reqs[1].body.kind = "document" /\ reqs[1].json = "fulfilled"
    /\ Done(2) /\ reqs[2].body.kind = "text" /\ reqs[2].route = "user"

-----------------------------------------------------------------------------
-----------------------------------------------------------------------------
(* C13.  Within a request the steps are taken in the order fetch, build    *)
(* tree, render, respond: a data-fetching request is rendered only after   *)
(* its payload was obtained, the parsed body of the fetch response         *)
(* included, and the response is sent only after the render returned.      *)

Has(s, e) == \E k \in 1..Len(s) : s[k] = e

Before(s, a, b) ==
    \A m, n \in 1..Len(s) : (s[m] = a /\ s[n] = b) => m < n

C13_StepsInOrder ==
    \A i \in Idx :
        LET s == reqs[i].steps IN
        /\ Before(s, "fetch", "payload") /\ Before(s, "payload", "build")
        /\ Before(s, "build", "render") /\ Before(s, "render", "respond")
        /\ Before(s, "body", "render")
        /\ (Has(s, "render") /\ Has(s, "fetch")) => Has(s, "payload")
        /\ (Has(s, "render") /\ reqs[i].route = "user") => Has(s, "body")

-----------------------------------------------------------------------------
(* C14.  A data-fetching request suspends exactly once, at its await, and  *)
(* a request without a fetch never suspends.  While requests are suspended *)
(* in a running process, the dispatcher can take a further request (as far *)
(* as the model receives requests at all), and each suspended request can  *)
(* be the next to complete, whatever the order of arrival.                 *)

FetchingRoutes == {"axiosRoot", "contextRoot", "dynamic", "user"}

Receive ==
    \/ GetHome \/ GetStar \/ GetDynamicRoute \/ GetPrefetchRoot \/ GetEmotionRoot
    \/ GetAxiosRoot \/ GetContextRoot \/ GetDynamic \/ GetUser

CompletesNext(i) == Next /\ reqs'[i].pc = "completed"

C14_SuspendsOnceOthersProceed ==
    /\ \A i \in Idx :
          /\ reqs[i].awaits = IF reqs[i].route \in FetchingRoutes THEN 1 ELSE 0
          /\ reqs[i].pc = "pending" => reqs[i].route \in FetchingRoutes
    /\ \A i \in Idx :
          (reqs[i].pc = "pending" /\ ~crashed) =>
              /\ ENABLED CompletesNext(i)
              /\ Len(reqs) < MaxRequests => ENABLED Receive

(* GET / or a catch-all request arrived while a /user/:id request was      *)
(* suspended, and was completed before it.                                 *)
C14_Witness ==
    /\ Len(reqs) >= 2
    /\ reqs[1].route = "user" /\ reqs[1].pc = "pending" /\ reqs[1].awaits = 1
    /\ reqs[2].route \in {"home", "star"} /\ Done(2) /\ reqs[2].awaits = 0

-----------------------------------------------------------------------------
SameRequest(i, j) ==
    /\ Done(i) /\ Done(j)
    /\ reqs[i].route = reqs[j].route
    /\ reqs[i].param = reqs[j].param
    /\ reqs[i].upstream = reqs[j].upstream
    /\ reqs[i].rendered = reqs[j].rendered
    /\ reqs[i].payload = reqs[j].payload

-----------------------------------------------------------------------------
(* C16.  Every success document holds a single mount element whose id is   *)
(* the element the client-side hydration entry point looks up.             *)
C16_MountMatchesHydrationTarget ==
    \A i \in Idx :
        (Done(i) /\ reqs[i].status = 200 /\ reqs[i].body.kind = "document") =>
            /\ Len(reqs[i].body.mounts) = 1
            /\ reqs[i].body.mounts[1].id = HydrationTarget

-----------------------------------------------------------------------------
(* C17.  Under fair scheduling, with every fetch settling, every received  *)
(* request eventually reaches completed: a request without a fetch is      *)
(* never left pending by its dispatch step, and a pending request is       *)
(* eventually completed.                                                   *)
C17_EveryRequestCompletes ==
    /\ [](\A i \in Idx : reqs[i].pc = "pending" => reqs[i].route \in FetchingRoutes)
    /\ \A i \in 1..MaxRequests :
          (i \in Idx /\ reqs[i].pc = "pending") ~> (i \in Idx /\ Done(i))

-----------------------------------------------------------------------------
(* A request of the pre-fetch example handled while the start-up fetch had *)
(* not settled, or after it had failed.                                    *)
WithoutPayload(i) ==
    /\ reqs[i].route = "prefetchRoot"
    /\ Done(i)
    /\ reqs[i].sawStartup \in {"pending", "rejected"}

(* A failed start-up fetch leaves preFetchedData unset. *)
FailedFetchLeavesUnset ==
    (program = "prefetch" /\ startup = "rejected") =>
        (preFetchedData = Undefined /\ writes = 0)

(* The document rendered from the unset payload, with status 200. *)
ServedUnset(i) ==
    /\ reqs[i].status = 200
    /\ reqs[i].body = Document("prefetchRoot", reqs[i].markup, Undefined)
    /\ reqs[i].payload = Undefined

(* C18 as stated.  In the pre-fetch example a failed start-up fetch leaves *)
(* the payload unset, and every request handled after it, or before the    *)
(* fetch settles, is answered 200 with a document rendered from the unset  *)
(* payload, never 500.                                                     *)
C18_UnsetPayloadAlways200 ==
    /\ FailedFetchLeavesUnset
    /\ \A i \in Idx : WithoutPayload(i) => ServedUnset(i)

(* C18 amended.  A failed start-up fetch leaves the payload unset, and     *)
(* every such request whose render returns is answered 200 with a document *)
(* rendered from the unset payload; it is answered 500 only when the       *)
(* render itself throws, by the default error handler.                     *)
C18_UnsetPayload200UnlessRenderThrows ==
    /\ FailedFetchLeavesUnset
    /\ \A i \in Idx : WithoutPayload(i) =>
          /\ reqs[i].payload = Undefined
          /\ reqs[i].rendered = "ok" => ServedUnset(i)
          /\ reqs[i].rendered = "threw" =>
                 (reqs[i].status = 500 /\ reqs[i].body = ExpressErrorResponse.body)
          /\ reqs[i].rendered \in {"ok", "threw"}

(* One request was served before the start-up fetch settled and one after  *)
(* it had failed, both with the document of the unset payload.             *)
C18_Witness ==
    /\ program = "prefetch" /\ startup = "rejected"
    /\ Len(reqs) >= 2
    /\ reqs[1].sawStartup = "pending" /\ reqs[2].sawStartup = "rejected"
    /\ \A i \in 1..2 : WithoutPayload(i) /\ reqs[i].rendered = "ok" /\ ServedUnset(i)

=============================================================================
